---- MODULE Spec2Model ----
(***************************************************************************)
(* Model of streamlit.py: the data cleaning step (clean_and_process), the  *)
(* flag and spray-coordinate helpers nested in it, and the per-batter      *)
(* metrics computed in the first tab of the page.                          *)
(*                                                                         *)
(* Text is a sequence of characters.  Every Japanese character of the      *)
(* source is written as one ASCII token (its reading):                     *)
(*   kuu shin = swinging miss     fu xa - ru = foul                        *)
(*   i n pu re - = in play        shi kyuu = hit by pitch                  *)
(*   yon kyuu = walk              san shin = strikeout                     *)
(*   tan da, ni rui da, san rui da, hon rui da = single .. home run        *)
(*   gi da, gi hi = sacrifice bunt, sacrifice fly                          *)
(* A cell of a table is a record [k, s, n]: k is the kind of Python value  *)
(* (NaN float, None, str, number, bool), s the text of a str, n the value  *)
(* of a number or bool.                                                    *)
(***************************************************************************)
EXTENDS Integers, Sequences, FiniteSets, TLC

VARIABLES pc, raw, df, retSame, calls, selected_player, b_df, stats,
          memo, xy, res, flags

vars == <<pc, raw, df, retSame, calls, selected_player, b_df, stats,
          memo, xy, res, flags>>

-----------------------------------------------------------------------------
(* Bounds of the model *)

MaxRows == 2
MaxMemoLen == 3
MaxParts == 2
MaxCalls == 2

-----------------------------------------------------------------------------
(* Python values held in cells *)

NaN == [k |-> "NaN", s |-> <<>>, n |-> 0]
None == [k |-> "None", s |-> <<>>, n |-> 0]
Str(s) == [k |-> "str", s |-> s, n |-> 0]
Num(n) == [k |-> "num", s |-> <<>>, n |-> n]
Bool(b) == [k |-> "bool", s |-> <<>>, n |-> IF b THEN 1 ELSE 0]

\* pandas notna: neither None nor NaN
notna(c) == c.k \notin {"NaN", "None"}

isinstance_str(c) == c.k = "str"

-----------------------------------------------------------------------------
(* Text *)

Digits == <<"0", "1", "2", "3", "4", "5", "6", "7", "8", "9">>

isdigit(ch) == \E i \in 1..10 : Digits[i] = ch

DigitVal(ch) == (CHOOSE i \in 1..10 : Digits[i] = ch) - 1

RECURSIVE IntText(_)
IntText(n) ==
    IF n < 0 THEN <<"-">> \o IntText(0 - n)
    ELSE IF n < 10 THEN <<Digits[n + 1]>>
    ELSE IntText(n \div 10) \o <<Digits[(n % 10) + 1]>>

\* int(text) for a text of decimal digits
RECURSIVE int(_)
int(t) ==
    IF t = <<>> THEN 0
    ELSE 10 * int(SubSeq(t, 1, Len(t) - 1)) + DigitVal(t[Len(t)])

\* str(x): the text Python gives for a cell value
PyStr(c) ==
    CASE c.k = "str" -> c.s
      [] c.k = "NaN" -> <<"n", "a", "n">>
      [] c.k = "None" -> <<"N", "o", "n", "e">>
      [] c.k = "num" -> IntText(c.n) \o <<".", "0">>
      [] c.k = "bool" -> IF c.n = 1 THEN <<"T", "r", "u", "e">>
                         ELSE <<"F", "a", "l", "s", "e">>

RECURSIVE lstrip(_)
lstrip(t) == IF t # <<>> /\ t[1] = " " THEN lstrip(Tail(t)) ELSE t

RECURSIVE rstrip(_)
rstrip(t) ==
    IF t # <<>> /\ t[Len(t)] = " " THEN rstrip(SubSeq(t, 1, Len(t) - 1)) ELSE t

strip(t) == rstrip(lstrip(t))

\* k in t: k occurs in t as a run of consecutive characters
contains(t, k) ==
    \E i \in 1..(Len(t) - Len(k) + 1) : SubSeq(t, i, i + Len(k) - 1) = k

RECURSIVE remove_spaces(_)
remove_spaces(t) ==
    IF t = <<>> THEN <<>>
    ELSE IF t[1] = " " THEN remove_spaces(Tail(t))
    ELSE <<t[1]>> \o remove_spaces(Tail(t))

Lower ==
    <<"a", "b", "c", "d", "e", "f", "g", "h", "i", "j", "k", "l", "m",
      "n", "o", "p", "q", "r", "s", "t", "u", "v", "w", "x", "y", "z">>

Upper ==
    <<"A", "B", "C", "D", "E", "F", "G", "H", "I", "J", "K", "L", "M",
      "N", "O", "P", "Q", "R", "S", "T", "U", "V", "W", "X", "Y", "Z">>

upper_char(ch) ==
    IF \E i \in 1..26 : Lower[i] = ch
    THEN Upper[CHOOSE i \in 1..26 : Lower[i] = ch]
    ELSE ch

upper(t) == [i \in 1..Len(t) |-> upper_char(t[i])]

\* the keywords of the source
KUUSHIN == <<"kuu", "shin">>
FOUL == <<"fu", "xa", "-", "ru">>
INPLAY == <<"i", "n", "pu", "re", "-">>
SHIKYUU == <<"shi", "kyuu">>
YONKYUU == <<"yon", "kyuu">>
SANSHIN == <<"san", "shin">>
TANDA == <<"tan", "da">>
NIRUIDA == <<"ni", "rui", "da">>
SANRUIDA == <<"san", "rui", "da">>
HONRUIDA == <<"hon", "rui", "da">>
GIDA == <<"gi", "da">>
GIHI == <<"gi", "hi">>
NANTEXT == <<"n", "a", "n">>

-----------------------------------------------------------------------------
(* Tables (pandas DataFrame).  A column name is its text without outer     *)
(* whitespace (core) together with the number of blanks before and after   *)
(* it; a table is the sequence of its column names and the sequence of     *)
(* its rows, each row a sequence of cells in column order.                 *)

Name(c) == [lead |-> 0, core |-> c, trail |-> 0]

strip_name(nm) == [nm EXCEPT !.lead = 0, !.trail = 0]

nrows(t) == Len(t.rows)

\* DataFrame.empty: no rows or no columns
empty(t) == Len(t.rows) = 0 \/ Len(t.columns) = 0

in_columns(t, c) == \E i \in 1..Len(t.columns) : t.columns[i] = Name(c)

idx(t, c) == CHOOSE i \in 1..Len(t.columns) : t.columns[i] = Name(c)

cell(t, r, c) == t.rows[r][idx(t, c)]

\* df[c] = f: replaces column c, or appends it after the last column
setcol(t, c, f) ==
    IF in_columns(t, c)
    THEN [t EXCEPT !.rows =
            [r \in 1..Len(t.rows) |-> [t.rows[r] EXCEPT ![idx(t, c)] = f[r]]]]
    ELSE [columns |-> Append(t.columns, Name(c)),
          rows |-> [r \in 1..Len(t.rows) |-> Append(t.rows[r], f[r])]]

\* dtype object: the column holds a str or a None
is_object(t, i) == \E r \in 1..Len(t.rows) : t.rows[r][i].k \in {"str", "None"}

required ==
    <<"PitchLocation", "PitchResult", "HitResult", "KorBB", "Memo", "Batter",
      "Pitcher">>

\* df.columns = df.columns.str.strip()
strip_columns(t) ==
    [t EXCEPT !.columns = [i \in 1..Len(t.columns) |-> strip_name(t.columns[i])]]

\* for col in required: if col not in df.columns: df[col] = None
RECURSIVE add_required(_, _)
add_required(t, i) ==
    IF i > Len(required) THEN t
    ELSE add_required(
           IF in_columns(t, required[i]) THEN t
           ELSE setcol(t, required[i], [r \in 1..Len(t.rows) |-> None]),
           i + 1)

\* df[col].astype(str).str.strip(), then the cells equal to 'nan' set to None
clean_cell(c) ==
    IF strip(PyStr(c)) = NANTEXT THEN None ELSE Str(strip(PyStr(c)))

\* the loop over select_dtypes(include=['object']).columns
clean_str_cols(t) ==
    [t EXCEPT !.rows =
       [r \in 1..Len(t.rows) |->
          [i \in 1..Len(t.columns) |->
             IF is_object(t, i) THEN clean_cell(t.rows[r][i]) ELSE t.rows[r][i]]]]

\* pd.to_numeric(errors='coerce') on one cell; of the numeric texts only
\* the unsigned decimal integers are recognised
to_numeric(c) ==
    CASE c.k = "num" -> c
      [] c.k = "bool" -> Num(c.n)
      [] c.k = "str" ->
           LET s == strip(c.s) IN
           IF s # <<>> /\ \A i \in 1..Len(s) : isdigit(s[i]) THEN Num(int(s))
           ELSE NaN
      [] OTHER -> NaN

\* df['PitchLocation'].isin(range(1, 10))
is_zone(c) == c.k = "num" /\ c.n \in 1..9

\* check_swing without the in-play keyword
check_swing_two(x) ==
    IF ~isinstance_str(x) THEN FALSE
    ELSE \E k \in {KUUSHIN, FOUL} : contains(x.s, k)

check_swing(x) ==
    IF ~isinstance_str(x) THEN FALSE
    ELSE \E k \in {KUUSHIN, FOUL, INPLAY} : contains(x.s, k)

check_contact(x) ==
    IF ~isinstance_str(x) THEN FALSE
    ELSE \E k \in {FOUL, INPLAY} : contains(x.s, k)

\* lambda x: KUUSHIN in str(x)
check_miss(x) == contains(PyStr(x), KUUSHIN)

-----------------------------------------------------------------------------
(* parse_xy.  Angles are in hundredths of a degree, distances in tenths.   *)
(* The random factors are an input: j.a is the angle offset, j.d the       *)
(* distance factor in percent.  The projection of the point on the field   *)
(* plane (1.2 sin, 0.8 cos) is not computed: a present result is held in   *)
(* polar form, the jittered angle for x and the jittered distance for y.   *)

rank_to_dist == <<10, 65, 110, 155, 195, 240, 290>>

dir_letters ==
    <<"B", "C", "D", "E", "F", "G", "H", "I", "J", "K", "L", "M",
      "N", "O", "P", "Q", "R", "S", "T", "U", "V", "W", "X", "Y">>

dir_angles ==
    <<-4650, -4220, -3800, -3420, -3000, -2600, -2215, -1800, -1400, -1000,
      -600, -250, 150, 550, 950, 1350, 1750, 2150, 2550, 2950, 3350, 3750,
      4150, 4550>>

\* dir_to_angle.get(d) is not None
has_angle(d) == \E i \in 1..Len(dir_letters) : dir_letters[i] = d

dir_to_angle(d) == dir_angles[CHOOSE i \in 1..Len(dir_letters) : dir_letters[i] = d]

\* "".join([c for c in t if c.isdigit()])
RECURSIVE digits_of(_)
digits_of(t) ==
    IF t = <<>> THEN <<>>
    ELSE IF isdigit(t[1]) THEN <<t[1]>> \o digits_of(Tail(t))
    ELSE digits_of(Tail(t))

\* the digits up to the first character that is no digit
RECURSIVE leading_digits(_)
leading_digits(t) ==
    IF t # <<>> /\ isdigit(t[1]) THEN <<t[1]>> \o leading_digits(Tail(t)) ELSE <<>>

\* the rank read from the leading digits only
rank_str_leading(m) == leading_digits(Tail(m))

\* the digits parse_xy reads the rank from
rank_str(m) == digits_of(Tail(m))

\* random.uniform(-0.05, 0.05) and random.uniform(0.9, 1.1): both at their
\* lowest, both at their highest
Jitter == {[a |-> -5, d |-> 90], [a |-> 5, d |-> 110]}

Absent == [present |-> FALSE, x |-> 0, y |-> 0, base |-> 0]

parse_xy(m0, j) ==
    IF ~isinstance_str(m0) \/ Len(m0.s) < 2 THEN Absent
    ELSE LET m == upper(remove_spaces(m0.s)) IN
         IF m = <<>> THEN Absent          \* memo[0] raises, caught
         ELSE IF rank_str(m) = <<>> THEN Absent
         ELSE IF has_angle(m[1]) /\ int(rank_str(m)) \in 1..Len(rank_to_dist)
              THEN [present |-> TRUE,
                    x |-> dir_to_angle(m[1]) + j.a,
                    y |-> (rank_to_dist[int(rank_str(m))] * j.d) \div 10,
                    base |-> rank_to_dist[int(rank_str(m))]]
              ELSE Absent

xy_cell(p, v) == IF p.present THEN Num(v) ELSE None

-----------------------------------------------------------------------------
(* clean_and_process(df): the table df refers to after the call.  js gives *)
(* the random factors drawn for the rows whose Memo is a spray code.       *)

with_flags(t, js) ==
    LET t1 == setcol(t, "PitchLocation",
                     [r \in 1..nrows(t) |-> to_numeric(cell(t, r, "PitchLocation"))])
        t2 == setcol(t1, "is_Zone",
                     [r \in 1..nrows(t) |-> Bool(is_zone(cell(t1, r, "PitchLocation")))])
        t3 == setcol(t2, "is_Swing",
                     [r \in 1..nrows(t) |-> Bool(check_swing(cell(t, r, "PitchResult")))])
        t4 == setcol(t3, "is_Contact",
                     [r \in 1..nrows(t) |-> Bool(check_contact(cell(t, r, "PitchResult")))])
        t5 == setcol(t4, "is_Miss",
                     [r \in 1..nrows(t) |-> Bool(check_miss(cell(t, r, "PitchResult")))])
        t6 == setcol(t5, "X",
                     [r \in 1..nrows(t) |->
                        xy_cell(parse_xy(cell(t, r, "Memo"), js[r]),
                                parse_xy(cell(t, r, "Memo"), js[r]).x)])
    IN  setcol(t6, "Y",
               [r \in 1..nrows(t) |->
                  xy_cell(parse_xy(cell(t, r, "Memo"), js[r]),
                          parse_xy(cell(t, r, "Memo"), js[r]).y)])

normalized(t) == clean_str_cols(add_required(strip_columns(t), 1))

\* clean_and_process dropping the rows without a PitchResult
clean_and_process_dropna(t, js) ==
    IF empty(t) THEN t
    ELSE [columns |-> with_flags(normalized(t), js).columns,
          rows |-> SelectSeq(with_flags(normalized(t), js).rows,
                             LAMBDA row : notna(row[idx(normalized(t), "PitchResult")]))]

clean_and_process(t, js) ==
    IF empty(t) THEN t ELSE with_flags(normalized(t), js)

\* the rows for which parse_xy draws its random factors
draws(t) ==
    IF empty(t) THEN {}
    ELSE {r \in 1..nrows(t) :
            parse_xy(cell(normalized(t), r, "Memo"), [a |-> 0, d |-> 100]).present}

-----------------------------------------------------------------------------
(* The metrics of the first tab, computed from b_df (the rows of the       *)
(* selected batter).  A formatted rate "12.3%" is the integer 123, and a   *)
(* formatted average ".250" the integer 250 (the denominators of the model *)
(* are too small for a rounding tie).                                      *)

count(t, P(_)) == Cardinality({r \in 1..nrows(t) : P(r)})

is_hbp(t, r) == contains(PyStr(cell(t, r, "PitchResult")), SHIKYUU)

is_bb(t, r) == cell(t, r, "KorBB") = Str(YONKYUU)

is_sac(t, r) == cell(t, r, "HitResult") \in {Str(GIDA), Str(GIHI)}

is_hit(t, r) ==
    cell(t, r, "HitResult") \in {Str(TANDA), Str(NIRUIDA), Str(SANRUIDA), Str(HONRUIDA)}

is_so(t, r) == contains(PyStr(cell(t, r, "KorBB")), SANSHIN)

\* pa_rows without the hit-by-pitch condition
pa_row_no_hbp(t, r) ==
    \/ notna(cell(t, r, "KorBB"))
    \/ notna(cell(t, r, "HitResult"))

\* the condition selecting pa_rows
pa_row(t, r) ==
    \/ notna(cell(t, r, "KorBB"))
    \/ notna(cell(t, r, "HitResult"))
    \/ is_hbp(t, r)

flag(t, r, c) == cell(t, r, c).n = 1

\* b_df['SourceFile'].nunique() if 'SourceFile' in b_df.columns else 1
games(t) ==
    IF in_columns(t, "SourceFile")
    THEN Cardinality({cell(t, r, "SourceFile") : r \in {q \in 1..nrows(t) :
                                                     notna(cell(t, q, "SourceFile"))}})
    ELSE 1

\* the counts the else-branch of tab1 computes
counts(t) ==
    LET pa == count(t, LAMBDA r : pa_row(t, r))
        bb == count(t, LAMBDA r : is_bb(t, r))
        hbp == count(t, LAMBDA r : is_hbp(t, r))
        sac == count(t, LAMBDA r : is_sac(t, r))
    IN  [pa |-> pa,
         hits |-> count(t, LAMBDA r : is_hit(t, r)),
         bb |-> bb,
         hbp |-> hbp,
         so |-> count(t, LAMBDA r : is_so(t, r)),
         sac |-> sac,
         ab |-> pa - bb - hbp - sac,
         total_swings |-> count(t, LAMBDA r : flag(t, r, "is_Swing")),
         total_contact |-> count(t, LAMBDA r : flag(t, r, "is_Contact")),
         total_misses |-> count(t, LAMBDA r : flag(t, r, "is_Miss")),
         z_total |-> count(t, LAMBDA r : flag(t, r, "is_Zone")),
         z_swings |-> count(t, LAMBDA r : flag(t, r, "is_Zone") /\ flag(t, r, "is_Swing")),
         z_contact |-> count(t, LAMBDA r : flag(t, r, "is_Zone") /\ flag(t, r, "is_Contact")),
         o_total |-> count(t, LAMBDA r : ~flag(t, r, "is_Zone")),
         o_swings |-> count(t, LAMBDA r : ~flag(t, r, "is_Zone") /\ flag(t, r, "is_Swing")),
         o_contact |-> count(t, LAMBDA r : ~flag(t, r, "is_Zone") /\ flag(t, r, "is_Contact")),
         len |-> nrows(t)]

abs(a) == IF a < 0 THEN 0 - a ELSE a

\* a / d rounded to the nearest integer, d # 0
round_div(a, d) ==
    LET q == (2 * abs(a) + abs(d)) \div (2 * abs(d))
    IN  IF (a < 0) = (d < 0) THEN q ELSE 0 - q

\* d > 0 in pct
pct_guard(d) == d > 0

\* the batting average guarded by ab != 0
avg_guard_nonzero(ab) == ab # 0

\* ab > 0 in the batting average
avg_guard(ab) == ab > 0

\* pct(n, d) formatted to one decimal: v the tenths of a percent, by the
\* divisors used, raised whether the division raises ZeroDivisionError
pct(n, d) ==
    IF pct_guard(d)
    THEN IF d = 0 THEN [v |-> 0, by |-> {0}, raised |-> TRUE]
         ELSE [v |-> round_div(n * 1000, d), by |-> {d}, raised |-> FALSE]
    ELSE [v |-> 0, by |-> {}, raised |-> FALSE]

\* f"{hits/ab:.3f}" if ab > 0 else "-"
average(hits, ab) ==
    IF avg_guard(ab)
    THEN IF ab = 0 THEN [dash |-> FALSE, v |-> 0, by |-> {0}, raised |-> TRUE]
         ELSE [dash |-> FALSE, v |-> round_div(hits * 1000, ab), by |-> {ab},
               raised |-> FALSE]
    ELSE [dash |-> TRUE, v |-> 0, by |-> {}, raised |-> FALSE]

RateNames ==
    {"bb_rate", "so_rate", "o_swing", "z_swing", "swstr", "o_contact",
     "z_contact", "contact", "k_bb"}

\* numerator and denominator of each rate of the stats dictionary
rate_args(c) ==
    [bb_rate |-> <<c.bb, c.pa>>,
     so_rate |-> <<c.so, c.pa>>,
     o_swing |-> <<c.o_swings, c.o_total>>,
     z_swing |-> <<c.z_swings, c.z_total>>,
     swstr |-> <<c.total_misses, c.len>>,
     o_contact |-> <<c.o_contact, c.o_swings>>,
     z_contact |-> <<c.z_contact, c.z_swings>>,
     contact |-> <<c.total_contact, c.total_swings>>,
     k_bb |-> <<c.so - c.bb, c.pa>>]

\* the state of tab1 after its else-branch: the counts, the stats
\* dictionary, the divisors of the divisions executed
metrics(t) ==
    LET c == counts(t)
        rate == [m \in RateNames |-> pct(rate_args(c)[m][1], rate_args(c)[m][2])]
        avg == average(c.hits, c.ab)
    IN  [made |-> TRUE,
         c |-> c,
         games |-> games(t),
         avg |-> [dash |-> avg.dash, v |-> avg.v],
         rate |-> [m \in RateNames |-> rate[m].v],
         by |-> avg.by \cup UNION {rate[m].by : m \in RateNames},
         raised |-> avg.raised \/ \E m \in RateNames : rate[m].raised]

NoStats ==
    [made |-> FALSE, c |-> <<>>, games |-> 0, avg |-> <<>>, rate |-> <<>>,
     by |-> {}, raised |-> FALSE]

-----------------------------------------------------------------------------
(* The tables the page can load (pd.read_csv of the CSV files, with the    *)
(* SourceFile column added): a missing value is NaN, a column holds texts  *)
(* or numbers, never both.  A layout is a sequence of columns, each with   *)
(* its name and the cells a row may hold in it.                            *)

Column(nm, opts) == [name |-> nm, opts |-> opts]

Padded(c) == [lead |-> 1, core |-> c, trail |-> 0]

RECURSIVE RowsOf(_)
RowsOf(layout) ==
    IF layout = <<>> THEN {<<>>}
    ELSE {<<c>> \o r : c \in Head(layout).opts, r \in RowsOf(Tail(layout))}

RECURSIVE RowSeqs(_, _)
RowSeqs(R, n) ==
    IF n = 0 THEN {<<>>}
    ELSE {Append(s, r) : s \in RowSeqs(R, n - 1), r \in R}

TablesOf(layout) ==
    {[columns |-> [i \in 1..Len(layout) |-> layout[i].name], rows |-> rs] :
        rs \in UNION {RowSeqs(RowsOf(layout), n) : n \in 0..MaxRows}}

\* every column present, the outcome columns varying
LayoutFull ==
    <<Column(Name("Inning"), {Num(1)}),
      Column(Name("Pitcher"), {Str(<<"P">>)}),
      Column(Name("Batter"), {Str(<<"A">>)}),
      Column(Name("PitchLocation"), {NaN}),
      Column(Name("PitchResult"), {Str(KUUSHIN), Str(SHIKYUU)}),
      Column(Name("HitResult"), {NaN, Str(TANDA), Str(GIDA)}),
      Column(Name("KorBB"), {NaN, Str(YONKYUU)}),
      Column(Name("Memo"), {NaN}),
      Column(Name("SourceFile"), {Str(<<"f">>)})>>

\* no HitResult, no PitchLocation, no Memo, no Inning; a padded column
\* name; padded and blank cells
LayoutSparse ==
    <<Column(Name("Pitcher"), {Str(<<"P">>)}),
      Column(Padded("Batter"), {Str(<<"A">>), Str(<<"B", " ">>)}),
      Column(Name("PitchResult"), {NaN, Str(SHIKYUU)}),
      Column(Name("KorBB"), {NaN, Str(<<" ">> \o SANSHIN), Str(<<" ", " ">>)})>>

\* spray codes in Memo, pitch locations read as text
LayoutMemo ==
    <<Column(Name("Inning"), {Num(1)}),
      Column(Name("Pitcher"), {Str(<<"P">>)}),
      Column(Name("Batter"), {Str(<<"A">>)}),
      Column(Name("PitchLocation"), {Str(<<"5", " ">>), Str(<<"x">>)}),
      Column(Name("PitchResult"), {Str(FOUL)}),
      Column(Name("HitResult"), {NaN}),
      Column(Name("KorBB"), {NaN}),
      Column(Name("Memo"), {NaN, Str(<<"h", "3">>)})>>

InputTables == TablesOf(LayoutFull) \cup TablesOf(LayoutSparse) \cup TablesOf(LayoutMemo)

NoTable == [columns |-> <<>>, rows |-> <<>>]

-----------------------------------------------------------------------------
(* The page: the script run top to bottom *)

\* df[df['Batter'] == selected_player]
filter_batter(t, p) ==
    [columns |-> t.columns,
     rows |-> SelectSeq(t.rows, LAMBDA row : row[idx(t, "Batter")] = p)]

\* set(df['Batter'].dropna().unique()) | set(df['Pitcher'].dropna().unique())
players(t) ==
    {cell(t, r, "Batter") : r \in {q \in 1..nrows(t) : notna(cell(t, q, "Batter"))}}
    \cup
    {cell(t, r, "Pitcher") : r \in {q \in 1..nrows(t) : notna(cell(t, q, "Pitcher"))}}

NoFlags == [is_Swing |-> FALSE, is_Contact |-> FALSE, is_Miss |-> FALSE]

Idle == memo = None /\ xy = Absent /\ res = None /\ flags = NoFlags

NoPage ==
    /\ raw = NoTable /\ df = NoTable /\ retSame = FALSE /\ calls = 0
    /\ selected_player = None /\ b_df = NoTable /\ stats = NoStats

Init ==
    /\ pc = "loaded"
    /\ df \in InputTables
    /\ raw = df
    /\ retSame = FALSE
    /\ calls = 0
    /\ selected_player = None
    /\ b_df = NoTable
    /\ stats = NoStats
    /\ Idle

\* df = clean_and_process(df): the function works on the caller's table and
\* returns it; raw keeps the value the table had before the call
Clean ==
    /\ pc = "loaded"
    /\ \E js \in [draws(df) -> Jitter] : df' = clean_and_process(df, js)
    /\ raw' = df
    /\ retSame' = TRUE
    /\ calls' = calls + 1
    /\ pc' = "cleaned"
    /\ UNCHANGED <<selected_player, b_df, stats, memo, xy, res, flags>>

\* players, st.selectbox, b_df
SelectPlayer ==
    /\ pc = "cleaned"
    /\ IF ~in_columns(df, "Batter") \/ ~in_columns(df, "Pitcher")
       THEN pc' = "KeyError_Batter" /\ UNCHANGED <<selected_player, b_df>>
       ELSE IF players(df) = {}
       THEN pc' = "stopped" /\ UNCHANGED <<selected_player, b_df>>
       ELSE \E p \in players(df) :
               /\ selected_player' = p
               /\ b_df' = filter_batter(df, p)
               /\ pc' = "selected"
    /\ UNCHANGED <<raw, df, retSame, calls, stats, memo, xy, res, flags>>

\* tab1 without the test for an empty b_df
no_data_never(t) == FALSE

\* if b_df.empty: warning, no metrics
no_data(t) == empty(t)

\* with tab1: the warning, or the stats table and the log of the pitches
Tab1 ==
    /\ pc = "selected"
    /\ IF no_data(b_df)
       THEN stats' = NoStats /\ pc' = "warning"
       ELSE IF metrics(b_df).raised
       THEN /\ stats' = [NoStats EXCEPT !.raised = TRUE, !.by = metrics(b_df).by]
            /\ pc' = "ZeroDivisionError"
       ELSE /\ stats' = metrics(b_df)
            /\ pc' = IF in_columns(b_df, "Inning") THEN "shown" ELSE "KeyError_Inning"
    /\ UNCHANGED <<raw, df, retSame, calls, selected_player, b_df, memo, xy, res, flags>>

Next == Clean \/ SelectPlayer \/ Tab1

Spec == Init /\ [][Next]_vars

-----------------------------------------------------------------------------
(* clean_and_process applied again to the table it returned *)

Reclean ==
    /\ pc = "cleaned"
    /\ calls < MaxCalls
    /\ \E js \in [draws(df) -> Jitter] : df' = clean_and_process(df, js)
    /\ raw' = df
    /\ retSame' = TRUE
    /\ calls' = calls + 1
    /\ pc' = "cleaned"
    /\ UNCHANGED <<selected_player, b_df, stats, memo, xy, res, flags>>

NextIdem == Clean \/ Reclean

SpecIdem == Init /\ [][NextIdem]_vars

-----------------------------------------------------------------------------
(* parse_xy on one Memo value *)

MemoChars == {"B", "y", "A", "Z", " ", "3", "7", "8", "0"}

RECURSIVE Texts(_, _)
Texts(A, n) ==
    IF n = 0 THEN {<<>>}
    ELSE Texts(A, n - 1) \cup {Append(t, ch) : t \in Texts(A, n - 1), ch \in A}

MemoInputs == {NaN, None, Num(3)} \cup {Str(t) : t \in Texts(MemoChars, MaxMemoLen)}

InitXY == pc = "memo" /\ memo \in MemoInputs /\ xy = Absent
          /\ res = None /\ flags = NoFlags /\ NoPage

ParseXY ==
    /\ pc = "memo"
    /\ \E j \in Jitter : xy' = parse_xy(memo, j)
    /\ pc' = "xy"
    /\ UNCHANGED <<raw, df, retSame, calls, selected_player, b_df, stats, memo, res, flags>>

NextXY == ParseXY

SpecXY == InitXY /\ [][NextXY]_vars

-----------------------------------------------------------------------------
(* check_swing, check_contact and the is_Miss lambda on one PitchResult    *)
(* value: a text made of up to MaxParts pieces, or a value that is no text *)

Pieces ==
    {KUUSHIN, FOUL, INPLAY, SHIKYUU, <<"kuu">>, <<"shin">>, <<"-">>, <<" ">>,
     <<"mi", "no", "ga", "shi">>}

RECURSIVE Joined(_)
Joined(n) ==
    IF n = 0 THEN {<<>>}
    ELSE Joined(n - 1) \cup {t \o q : t \in Joined(n - 1), q \in Pieces}

ResInputs == {NaN, None, Num(5)} \cup {Str(t) : t \in Joined(MaxParts)}

InitFlags == pc = "res" /\ res \in ResInputs /\ flags = NoFlags
             /\ memo = None /\ xy = Absent /\ NoPage

Flag ==
    /\ pc = "res"
    /\ flags' = [is_Swing |-> check_swing(res),
                 is_Contact |-> check_contact(res),
                 is_Miss |-> check_miss(res)]
    /\ pc' = "flags"
    /\ UNCHANGED <<raw, df, retSame, calls, selected_player, b_df, stats, memo, xy, res>>

NextFlags == Flag

SpecFlags == InitFlags /\ [][NextFlags]_vars

-----------------------------------------------------------------------------
(* Properties *)

NONETEXT == <<"N", "o", "n", "e">>

\* the raw table has column c (whatever blanks surround its name)
raw_has(c) == in_columns(strip_columns(raw), c)

\* row r of the raw table has no value in column c
raw_absent(r, c) == ~raw_has(c) \/ ~notna(cell(strip_columns(raw), r, c))

raw_hbp(r) ==
    raw_has("PitchResult")
    /\ cell(strip_columns(raw), r, "PitchResult").k = "str"
    /\ contains(cell(strip_columns(raw), r, "PitchResult").s, SHIKYUU)

AfterTab1 == {"warning", "shown", "KeyError_Inning", "ZeroDivisionError"}

\* C1: PA is the number of rows of b_df with KorBB present, HitResult present
\* or the hit-by-pitch keyword in PitchResult; a row whose raw HitResult and
\* KorBB are absent and whose raw PitchResult has no hit-by-pitch keyword is
\* not a PA row after clean_and_process.
C1_PACountsOutcomesOnly ==
    /\ stats.made =>
         stats.c.pa = Cardinality({r \in 1..nrows(b_df) :
                         \/ notna(cell(b_df, r, "KorBB"))
                         \/ notna(cell(b_df, r, "HitResult"))
                         \/ contains(PyStr(cell(b_df, r, "PitchResult")), SHIKYUU)})
    /\ (calls = 1 /\ ~empty(raw)) =>
         \A r \in 1..nrows(df) :
            (raw_absent(r, "HitResult") /\ raw_absent(r, "KorBB") /\ ~raw_hbp(r))
               => ~pa_row(df, r)

\* C2: after clean_and_process every required column exists, and a required
\* column the input did not have is absent (None or NaN) in every row.
C2_RequiredColumnsAbsent ==
    calls = 1 =>
       \A i \in 1..Len(required) :
          /\ in_columns(df, required[i])
          /\ ~raw_has(required[i]) =>
                \A r \in 1..nrows(df) : ~notna(cell(df, r, required[i]))

\* C3: after clean_and_process no text cell has outer whitespace, and none is
\* a spelling of blank or null (the empty text, 'nan', 'None').
C3_TextCellsCanonical ==
    calls = 1 =>
       \A r \in 1..nrows(df) : \A i \in 1..Len(df.columns) :
          df.rows[r][i].k = "str" =>
             /\ strip(df.rows[r][i].s) = df.rows[r][i].s
             /\ df.rows[r][i].s \notin {<<>>, NANTEXT, NONETEXT}

NormalizedColumns ==
    {required[i] : i \in 1..Len(required)}
       \cup {"is_Zone", "is_Swing", "is_Contact", "is_Miss"}

CountNames == {"pa", "hits", "bb", "hbp", "so", "sac"}

\* C4: a second clean_and_process changes no normalized column, no flag and
\* no aggregated count of any player (raw is the table before the second call).
C4_Idempotent ==
    (calls = 2 /\ ~empty(df)) =>
       /\ \A c \in NormalizedColumns : \A r \in 1..nrows(df) :
             cell(df, r, c) = cell(raw, r, c)
       /\ \A p \in players(raw) \cup players(df) : \A n \in CountNames :
             counts(filter_batter(df, p))[n] = counts(filter_batter(raw, p))[n]

\* the Memo text as parse_xy reads it
Code == upper(remove_spaces(memo.s))

DirectionLetters == {dir_letters[i] : i \in 1..Len(dir_letters)}

\* the code has a direction letter B..Y, and run is a rank in 1..7
ValidCode(run) ==
    /\ memo.k = "str"
    /\ Len(memo.s) >= 2
    /\ Code # <<>>
    /\ Code[1] \in DirectionLetters
    /\ run # <<>>
    /\ int(run) \in 1..7

AllDigits == SelectSeq(Tail(Code), isdigit)

\* C5 as claimed: parse_xy gives coordinates iff the first character is a
\* direction letter and the leading run of digits after it is a rank in 1..7,
\* and uses the base distance of that rank.
C5_LeadingRunRank ==
    pc = "xy" =>
       /\ xy.present <=> ValidCode(leading_digits(Tail(Code)))
       /\ (xy.present /\ ValidCode(leading_digits(Tail(Code)))) =>
             xy.base = rank_to_dist[int(leading_digits(Tail(Code)))]

\* C5 amended: parse_xy gives coordinates iff the first character is a
\* direction letter and all the digits after it, taken together in order, are
\* a rank in 1..7; it uses the base distance of that rank, within the jitter.
C5_AllDigitsRank ==
    pc = "xy" =>
       /\ xy.present <=> ValidCode(AllDigits)
       /\ xy.present =>
             /\ xy.base = rank_to_dist[int(AllDigits)]
             /\ xy.y \in {xy.base * 9, xy.base * 11}

C5_Witness ==
    pc = "xy" /\ xy.present /\ leading_digits(Tail(Code)) = <<>> /\ xy.base = 110

\* C6: is_Swing iff PitchResult is a text with the swinging-miss, foul or
\* in-play keyword; is_Contact iff a text with foul or in-play; is_Miss iff a
\* text with swinging-miss; all false for a value that is no text; hence
\* is_Swing = is_Contact or is_Miss.
C6_Flags ==
    pc = "flags" =>
       /\ flags.is_Swing <=>
             (res.k = "str" /\ (\/ contains(res.s, KUUSHIN)
                                \/ contains(res.s, FOUL)
                                \/ contains(res.s, INPLAY)))
       /\ flags.is_Contact <=>
             (res.k = "str" /\ (contains(res.s, FOUL) \/ contains(res.s, INPLAY)))
       /\ flags.is_Miss <=> (res.k = "str" /\ contains(res.s, KUUSHIN))
       /\ res.k # "str" => flags = NoFlags
       /\ flags.is_Swing <=> (flags.is_Contact \/ flags.is_Miss)

C6_Witness ==
    /\ pc = "flags"
    /\ res = Str(<<"mi", "no", "ga", "shi">> \o INPLAY)
    /\ flags = [is_Swing |-> TRUE, is_Contact |-> TRUE, is_Miss |-> FALSE]

\* C7 as claimed: with an empty b_df tab1 still makes a metrics record, with
\* PA 0, AB 0, average "-" and every rate "0.0%".
C7_EmptyYieldsRecord ==
    (pc \in AfterTab1 /\ empty(b_df)) =>
       /\ stats.made
       /\ stats.c.pa = 0
       /\ stats.c.ab = 0
       /\ stats.avg.dash
       /\ \A m \in RateNames : stats.rate[m] = 0

\* C7 amended: with an empty b_df tab1 shows the warning, makes no metrics
\* record and raises nothing.
C7_EmptyYieldsWarning ==
    (pc \in AfterTab1 /\ empty(b_df)) =>
       pc = "warning" /\ ~stats.made /\ ~stats.raised

C7_Witness == pc = "warning" /\ empty(b_df) /\ selected_player = Str(<<"P">>)

\* no row of t counts for two of BB, HBP and sacrifices
WellFormed(t) ==
    \A r \in 1..nrows(t) :
       /\ ~(is_bb(t, r) /\ is_hbp(t, r))
       /\ ~(is_bb(t, r) /\ is_sac(t, r))
       /\ ~(is_hbp(t, r) /\ is_sac(t, r))

\* C8: AB = PA - BB - HBP - sacrifices is not negative when no row of b_df
\* counts for two of BB, HBP and sacrifices.
C8_ABNotNegative ==
    (stats.made /\ WellFormed(b_df)) =>
       /\ stats.c.ab = stats.c.pa - stats.c.bb - stats.c.hbp - stats.c.sac
       /\ stats.c.ab >= 0

C8_Witness ==
    /\ stats.made /\ WellFormed(b_df)
    /\ stats.c.bb = 1 /\ stats.c.hbp = 1 /\ stats.c.ab = 0

\* C9: no division by zero or by a negative number: a rate is 0 when its
\* denominator is 0, the average is "-" when AB <= 0 and hits/AB when AB > 0.
C9_NoBadDivision ==
    /\ ~stats.raised
    /\ \A d \in stats.by : d > 0
    /\ stats.made =>
         /\ \A m \in RateNames :
               rate_args(stats.c)[m][2] = 0 => stats.rate[m] = 0
         /\ stats.c.ab <= 0 => stats.avg.dash
         /\ stats.c.ab > 0 =>
               /\ ~stats.avg.dash
               /\ 2 * abs(stats.avg.v * stats.c.ab - 1000 * stats.c.hits) <= stats.c.ab

C9_Witness ==
    stats.made /\ stats.c.ab < 0 /\ stats.c.z_total = 0 /\ stats.c.total_swings = 0

\* the columns of the raw table, names trimmed, are the first columns of df
KeepsColumns ==
    /\ Len(df.columns) >= Len(raw.columns)
    /\ \A i \in 1..Len(raw.columns) : df.columns[i] = strip_name(raw.columns[i])

====
